---- MODULE Spec2Model ----
(***************************************************************************)
(* The knowledge graph engine of rigrergl/memento.                         *)
(*                                                                         *)
(* The repository holds three KnowledgeGraph classes:                      *)
(*   demo_graph.py                          (variant "demo_graph")         *)
(*   demo_graph_simple.py                   (variant "demo_graph_simple")  *)
(*   prototype/kg-demo/knowledge_graph_demo.py   (variant "kg_demo")       *)
(* A store is an instance of one of them; `variant` says which.            *)
(*                                                                         *)
(* Python values are modelled as follows.  A dict is the sequence of its   *)
(* items in insertion order (assigning to a present key replaces the item  *)
(* in place, assigning to an absent key appends).  An optional value is a  *)
(* record [some, v].  A float strength is an integer number of hundredths. *)
(* A cosine score dot/sqrt(nq*nm) is the pair [dot, nn] with nn = nq*nm,   *)
(* compared exactly (real arithmetic, no rounding).                        *)
(***************************************************************************)
EXTENDS Integers, Sequences, FiniteSets, TLC

VARIABLES
    variant,        \* which KnowledgeGraph class the store is an instance of
    mementos,       \* self.mementos
    entities,       \* self.entities
    relationships,  \* self.relationships
    hierarchy,      \* self.hierarchy
    ret,            \* the last call: its name, arguments and outcome
    in_flight       \* per caller, the add_memento call it is inside of

vars == <<variant, mementos, entities, relationships, hierarchy, ret, in_flight>>
store == <<mementos, entities, relationships, hierarchy>>

----------------------------------------------------------------------------
(* Bounds of the model *)

MaxMementos == 3
MaxEntities == 2
MaxRelationships == 2
MaxHierarchyEdges == 2
MaxTopK == 4
MaxNegTopK == 2

----------------------------------------------------------------------------
(* Python values *)

NoneVal == [some |-> FALSE, v |-> <<>>]
Some(x) == [some |-> TRUE, v |-> x]

Min(a, b) == IF a <= b THEN a ELSE b
Max(a, b) == IF a >= b THEN a ELSE b

RECURSIVE Reverse(_)
Reverse(s) == IF s = <<>> THEN <<>> ELSE Append(Reverse(Tail(s)), Head(s))

\* s[:k], the slice of a Python list: a negative k counts from the end
SlicePrefix(s, k) ==
    LET n == Len(s)
        stop == IF k < 0 THEN Max(n + k, 0) ELSE Min(k, n)
    IN  SubSeq(s, 1, stop)

\* str.lower() on the ASCII letters
LowerChar(c) ==
    CASE c = "A" -> "a" [] c = "B" -> "b" [] c = "C" -> "c" [] c = "D" -> "d"
      [] c = "E" -> "e" [] c = "F" -> "f" [] c = "G" -> "g" [] c = "H" -> "h"
      [] c = "I" -> "i" [] c = "J" -> "j" [] c = "K" -> "k" [] c = "L" -> "l"
      [] c = "M" -> "m" [] c = "N" -> "n" [] c = "O" -> "o" [] c = "P" -> "p"
      [] c = "Q" -> "q" [] c = "R" -> "r" [] c = "S" -> "s" [] c = "T" -> "t"
      [] c = "U" -> "u" [] c = "V" -> "v" [] c = "W" -> "w" [] c = "X" -> "x"
      [] c = "Y" -> "y" [] c = "Z" -> "z" [] OTHER -> c

RECURSIVE Lower(_)
Lower(s) ==
    IF Len(s) = 0 THEN ""
    ELSE LowerChar(SubSeq(s, 1, 1)) \o Lower(SubSeq(s, 2, Len(s)))

\* d[key] = value on a dict whose values carry their key in the field id
DictSet(d, value) ==
    IF \E i \in 1..Len(d) : d[i].id = value.id
    THEN [i \in 1..Len(d) |-> IF d[i].id = value.id THEN value ELSE d[i]]
    ELSE Append(d, value)

DictKeys(d) == {d[i].id : i \in 1..Len(d)}

\* A defaultdict that would put a new key in front of the older keys
DefaultDictPrepend(d, key, item) ==
    IF \E i \in 1..Len(d) : d[i].key = key
    THEN [i \in 1..Len(d) |->
            IF d[i].key = key
            THEN [key |-> key, items |-> Append(d[i].items, item)]
            ELSE d[i]]
    ELSE <<[key |-> key, items |-> <<item>>]>> \o d

\* d[key].append(item) on a defaultdict(list), kept as a sequence of
\* [key, items] in the order the keys were created
DefaultDictAppend(d, key, item) ==
    IF \E i \in 1..Len(d) : d[i].key = key
    THEN [i \in 1..Len(d) |->
            IF d[i].key = key
            THEN [key |-> key, items |-> Append(d[i].items, item)]
            ELSE d[i]]
    ELSE Append(d, [key |-> key, items |-> <<item>>])

----------------------------------------------------------------------------
(* The inputs of the calls *)

Variants == {"demo_graph", "demo_graph_simple", "kg_demo"}

Contents == {"User works on Memento"}
Timestamps == {"2025-11-16T00:01:00"}

\* What embedder.generate_embedding does: return a vector, raise, or (a
\* provider that is only duck-typed) return None.
ProviderRaises == [raises |-> TRUE, value |-> NoneVal]
ProviderReturns(x) == [raises |-> FALSE, value |-> x]

StoreOutcomes == {ProviderReturns(Some(<<1, 0>>)), ProviderRaises}

\* add_entity(entity_type, name, properties, source_mementos)
EntityArgs ==
    { [type |-> "Person", name |-> "Alice", source_mementos |-> <<"m1">>],
      [type |-> "Project", name |-> "Acme", source_mementos |-> <<"m2">>],
      [type |-> "Person", name |-> "Alice", source_mementos |-> <<"m1", "m99">>],
      [type |-> "person", name |-> "Bob", source_mementos |-> <<>>] }

\* add_relationship(from_id, to_id, relation, strength, evidence)
RelationshipArgs ==
    { [from |-> "e1_person", to |-> "e2_project", evidence |-> <<"m3">>],
      [from |-> "e1_person", to |-> "e99_missing", evidence |-> <<>>],
      [from |-> "e2_project", to |-> "e1_person", evidence |-> <<"m99">>] }

Relations == {"WORKS_ON"}
Strengths == {100}
PropertyBags == {<<>>}

\* The records a caller of the prototype hands in
ProtoMementoIds == {"m1", "m2"}
ProtoEntities ==
    { [id |-> "e1_person", type |-> "Person", name |-> "Alice",
       properties |-> <<>>, scale |-> "domain", source_mementos |-> <<"m1">>],
      [id |-> "e1_person", type |-> "Person", name |-> "Alicia",
       properties |-> <<>>, scale |-> "system", source_mementos |-> <<"m1">>],
      [id |-> "e2_project", type |-> "Project", name |-> "Acme",
       properties |-> <<>>, scale |-> "atomic", source_mementos |-> <<"m99">>] }
ProtoHierarchyIds == {"e1_person", "e2_project"}

\* The callers of one store, and the frame of a caller that is in no call
Callers == {1, 2}
Idle == [pc |-> "idle", id |-> "", content |-> "", timestamp |-> "",
         embedding |-> NoneVal]

----------------------------------------------------------------------------
(* The record of the last call *)

NoCall ==
    [op |-> "", outcome |-> "", exc |-> "", id |-> "", mids |-> <<>>,
     from |-> "", to |-> "", query |-> NoneVal, top_k |-> 0,
     results |-> <<>>, bars |-> <<>>, avg |-> [num |-> 0, den |-> 1],
     lines |-> <<>>, doc |-> <<>>, provider |-> "", calls |-> 0,
     record |-> NoneVal, searches |-> <<>>,
     config |-> NoneVal, built |-> <<>>, message |-> ""]

Returned(op, id) == [NoCall EXCEPT !.op = op, !.outcome = "ok", !.id = id]
Raised(op, exc) == [NoCall EXCEPT !.op = op, !.outcome = "raise", !.exc = exc]

----------------------------------------------------------------------------
(* GraphStore: demo_graph.py and demo_graph_simple.py *)

memento_id(ms) == "m" \o ToString(Len(ms) + 1)

entity_id(es, entity_type) ==
    "e" \o ToString(Len(es) + 1) \o "_" \o Lower(entity_type)

Memento(id, content, timestamp, embedding, source) ==
    [id |-> id, content |-> content, timestamp |-> timestamp,
     embedding |-> embedding, source |-> source]

Entity(id, type, name, properties, scale, source_mementos) ==
    [id |-> id, type |-> type, name |-> name, properties |-> properties,
     scale |-> scale, source_mementos |-> source_mementos]

Relationship(from_entity, to_entity, relation_type, strength, evidence, properties) ==
    [from_entity |-> from_entity, to_entity |-> to_entity,
     relation_type |-> relation_type, strength |-> strength,
     evidence |-> evidence, properties |-> properties]

\* The handler's single call of self.embedder.generate_embedding, as the
\* caller's record of it: how the provider answered, how often it was called
Called(r, out) ==
    [r EXCEPT !.provider = IF out.raises THEN "raised" ELSE "returned",
              !.calls = 1]

\* An add_memento that would catch the provider's failure and store the
\* memento without embedding
add_memento_swallowing(content, timestamp, out) ==
    /\ variant = "demo_graph"
    /\ Len(mementos) < MaxMementos
    /\ LET id == memento_id(mementos)
       IN  /\ mementos' = DictSet(mementos,
                   Memento(id, content, timestamp,
                           IF out.raises THEN NoneVal ELSE out.value, ""))
           /\ ret' = Called(Returned("add_memento", id), out)
           /\ UNCHANGED <<entities, relationships, hierarchy>>
    /\ UNCHANGED <<in_flight, variant>>

\* demo_graph.py: the ID is derived, the provider is called, the record stored
add_memento(content, timestamp, out) ==
    /\ variant = "demo_graph"
    /\ Len(mementos) < MaxMementos
    /\ LET id == memento_id(mementos)
       IN  IF out.raises
           THEN /\ ret' = Called(Raised("add_memento", "ProviderError"), out)
                /\ UNCHANGED store
           ELSE /\ mementos' = DictSet(mementos,
                                   Memento(id, content, timestamp, out.value, ""))
                /\ ret' = Called(Returned("add_memento", id), out)
                /\ UNCHANGED <<entities, relationships, hierarchy>>
    /\ UNCHANGED <<in_flight, variant>>

\* demo_graph_simple.py: no provider, no embedding field
simple_add_memento(content, timestamp) ==
    /\ variant = "demo_graph_simple"
    /\ Len(mementos) < MaxMementos
    /\ LET id == memento_id(mementos)
       IN  /\ mementos' = DictSet(mementos,
                              Memento(id, content, timestamp, NoneVal, ""))
           /\ ret' = Returned("add_memento", id)
    /\ UNCHANGED <<in_flight, variant, entities, relationships, hierarchy>>

\* the same text in demo_graph.py and demo_graph_simple.py
add_entity(entity_type, name, properties, source_mementos) ==
    /\ variant \in {"demo_graph", "demo_graph_simple"}
    /\ Len(entities) < MaxEntities
    /\ LET id == entity_id(entities, entity_type)
           entity == Entity(id, entity_type, name, properties, "", source_mementos)
       IN  /\ entities' = DictSet(entities, entity)
           /\ hierarchy' = DefaultDictAppend(hierarchy, entity_type, id)
           /\ ret' = [Returned("add_entity", id) EXCEPT !.mids = source_mementos]
    /\ UNCHANGED <<in_flight, variant, mementos, relationships>>

\* the same text in demo_graph.py and demo_graph_simple.py
add_relationship(from_id, to_id, relation, strength, evidence) ==
    /\ variant \in {"demo_graph", "demo_graph_simple"}
    /\ Len(relationships) < MaxRelationships
    /\ relationships' = Append(relationships,
            Relationship(from_id, to_id, relation, strength, evidence, <<>>))
    /\ ret' = [Returned("add_relationship", "") EXCEPT
                  !.mids = evidence, !.from = from_id, !.to = to_id]
    /\ UNCHANGED <<in_flight, variant, mementos, entities, hierarchy>>

----------------------------------------------------------------------------
(* SimilaritySearch: demo_graph.py *)

Sgn(x) == IF x > 0 THEN 1 ELSE IF x < 0 THEN 0 - 1 ELSE 0

RECURSIVE Dot(_, _)
Dot(a, b) ==
    IF a = <<>> \/ b = <<>> THEN 0
    ELSE Head(a) * Head(b) + Dot(Tail(a), Tail(b))

SumSq(a) == Dot(a, a)

\* dot_product / (norm_q * norm_m), kept as dot / sqrt(nn)
similarity(query_emb, embedding) ==
    [dot |-> Dot(query_emb, embedding), nn |-> SumSq(query_emb) * SumSq(embedding)]

\* a < b and a = b on the scores dot / sqrt(nn), nn > 0: x |-> sgn(x) * x^2
\* is strictly increasing, so the signed squares are compared instead
SignedSq(a) == Sgn(a.dot) * a.dot * a.dot
ScoreLess(a, b) == SignedSq(a) * b.nn < SignedSq(b) * a.nn
ScoreEq(a, b) == SignedSq(a) * b.nn = SignedSq(b) * a.nn

\* The exception the scoring of one memento ends in, "" when it ends normally:
\* zip() of None is a TypeError, a zero norm a ZeroDivisionError
ScoringFailure(query_emb, memento) ==
    IF ~query_emb.some \/ ~memento.embedding.some THEN "TypeError"
    ELSE IF SumSq(query_emb.v) * SumSq(memento.embedding.v) = 0
         THEN "ZeroDivisionError"
         ELSE ""

\* the mementos that carry an embedding
Embedded == {i \in 1..Len(mementos) : mementos[i].embedding.some}

\* The loop stops at the first memento whose scoring raises
RECURSIVE FirstFailure(_, _)
FirstFailure(query_emb, ms) ==
    IF ms = <<>> THEN ""
    ELSE IF ScoringFailure(query_emb, Head(ms)) # ""
         THEN ScoringFailure(query_emb, Head(ms))
         ELSE FirstFailure(query_emb, Tail(ms))

\* similarities, in the order of self.mementos.values()
Similarities(query_emb, ms) ==
    [i \in 1..Len(ms) |->
        [id |-> ms[i].id, score |-> similarity(query_emb.v, ms[i].embedding.v)]]

\* x goes behind every element whose score is not below its own
RECURSIVE InsertDesc(_, _)
InsertDesc(x, s) ==
    IF s = <<>> THEN <<x>>
    ELSE IF ScoreLess(Head(s).score, x.score)
         THEN <<x>> \o s
         ELSE <<Head(s)>> \o InsertDesc(x, Tail(s))

RECURSIVE InsertAll(_, _)
InsertAll(s, acc) ==
    IF s = <<>> THEN acc ELSE InsertAll(Tail(s), InsertDesc(Head(s), acc))

\* x goes behind every element whose score is not above its own
RECURSIVE InsertAsc(_, _)
InsertAsc(x, s) ==
    IF s = <<>> THEN <<x>>
    ELSE IF ScoreLess(x.score, Head(s).score)
         THEN <<x>> \o s
         ELSE <<Head(s)>> \o InsertAsc(x, Tail(s))

RECURSIVE InsertAllAsc(_, _)
InsertAllAsc(s, acc) ==
    IF s = <<>> THEN acc ELSE InsertAllAsc(Tail(s), InsertAsc(Head(s), acc))

\* A plausible slip: sort ascending, then reverse (equal scores change places)
sort_ascending_then_reverse(s) == Reverse(InsertAllAsc(s, <<>>))

\* similarities.sort(key=lambda x: x[1], reverse=True): list.sort is stable,
\* also under reverse=True
sort_by_score_desc(s) == InsertAll(s, <<>>)

find_similar_mementos(query_out, top_k) ==
    /\ variant = "demo_graph"
    /\ LET call == Called([NoCall EXCEPT !.op = "find_similar_mementos",
                                         !.query = query_out.value,
                                         !.top_k = top_k], query_out)
           failure == FirstFailure(query_out.value, mementos)
       IN  IF query_out.raises
           THEN ret' = [call EXCEPT !.outcome = "raise", !.exc = "ProviderError"]
           ELSE IF failure # ""
                THEN ret' = [call EXCEPT !.outcome = "raise", !.exc = failure]
                ELSE ret' = [call EXCEPT
                        !.outcome = "ok",
                        !.results = SlicePrefix(
                            sort_by_score_desc(
                                Similarities(query_out.value, mementos)),
                            top_k)]
    /\ UNCHANGED <<in_flight, variant, store>>

----------------------------------------------------------------------------
(* GraphStore: prototype/kg-demo/knowledge_graph_demo.py *)

\* The caller builds the records.  The prototype's fields are kept under the
\* names of demo_graph.py: Entity.extracted_from is source_mementos;
\* Relationship.source, target, type and extracted_from are from_entity,
\* to_entity, relation_type and evidence.  A prototype Relationship has no
\* strength; a prototype Memento has no embedding.

proto_add_memento(memento) ==
    /\ variant = "kg_demo"
    /\ Len(mementos) < MaxMementos
    /\ mementos' = Append(mementos, memento)
    /\ ret' = Returned("add_memento", "")
    /\ UNCHANGED <<in_flight, variant, entities, relationships, hierarchy>>

proto_add_entity(entity) ==
    /\ variant = "kg_demo"
    /\ Len(DictSet(entities, entity)) <= MaxEntities
    /\ entities' = DictSet(entities, entity)
    /\ ret' = [Returned("add_entity", "") EXCEPT !.mids = entity.source_mementos]
    /\ UNCHANGED <<in_flight, variant, mementos, relationships, hierarchy>>

proto_add_relationship(rel) ==
    /\ variant = "kg_demo"
    /\ Len(relationships) < MaxRelationships
    /\ relationships' = Append(relationships, rel)
    /\ ret' = [Returned("add_relationship", "") EXCEPT
                  !.mids = rel.evidence, !.from = rel.from_entity,
                  !.to = rel.to_entity]
    /\ UNCHANGED <<in_flight, variant, mementos, entities, hierarchy>>

RECURSIVE SumLen(_)
SumLen(d) == IF d = <<>> THEN 0 ELSE Len(Head(d).items) + SumLen(Tail(d))

\* An add_hierarchy that would refuse an edge from an entity to itself
add_hierarchy_rejecting_loops(parent, child) ==
    /\ variant = "kg_demo"
    /\ SumLen(hierarchy) < MaxHierarchyEdges
    /\ IF parent = child
       THEN /\ ret' = [Raised("add_hierarchy", "ValueError") EXCEPT
                          !.from = parent, !.to = child]
            /\ UNCHANGED hierarchy
       ELSE /\ hierarchy' = DefaultDictAppend(hierarchy, parent, child)
            /\ ret' = [Returned("add_hierarchy", "") EXCEPT
                          !.from = parent, !.to = child]
    /\ UNCHANGED <<in_flight, variant, mementos, entities, relationships>>

add_hierarchy(parent, child) ==
    /\ variant = "kg_demo"
    /\ SumLen(hierarchy) < MaxHierarchyEdges
    /\ hierarchy' = DefaultDictAppend(hierarchy, parent, child)
    /\ ret' = [Returned("add_hierarchy", "") EXCEPT !.from = parent, !.to = child]
    /\ UNCHANGED <<in_flight, variant, mementos, entities, relationships>>

----------------------------------------------------------------------------
(* GraphRenderer: the text report of demo_graph_simple.py *)

\* int(x) of Python truncates towards zero; strength is in hundredths, so
\* int(strength * 10) is the truncation of strength / 10
IntTimes10(strength) ==
    IF strength >= 0 THEN strength \div 10 ELSE 0 - ((0 - strength) \div 10)

\* "█" * n and "░" * (10 - n): a string times a negative count is empty
strength_bar(strength) ==
    [filled |-> Max(0, IntTimes10(strength)),
     empty |-> Max(0, 10 - IntTimes10(strength))]

\* Layer 2 looks up every ID of the hierarchy, Layer 3 both endpoints of every
\* relationship, in self.entities: a missing key is a KeyError
UnresolvedLookup ==
    \/ \E i \in 1..Len(hierarchy) :
          \E k \in 1..Len(hierarchy[i].items) :
              hierarchy[i].items[k] \notin DictKeys(entities)
    \/ \E i \in 1..Len(relationships) :
          \/ relationships[i].from_entity \notin DictKeys(entities)
          \/ relationships[i].to_entity \notin DictKeys(entities)

\* visualize() of demo_graph_simple.py: the three layers, then the statistics
\* with len(self.relationships) / len(self.entities)
simple_visualize ==
    /\ variant = "demo_graph_simple"
    /\ LET call == [NoCall EXCEPT !.op = "visualize"]
       IN  IF UnresolvedLookup
           THEN ret' = [call EXCEPT !.outcome = "raise", !.exc = "KeyError"]
           ELSE IF Len(entities) = 0
                THEN ret' = [call EXCEPT !.outcome = "raise",
                                         !.exc = "ZeroDivisionError"]
                ELSE ret' = [call EXCEPT
                        !.outcome = "ok",
                        !.bars = [i \in 1..Len(relationships) |->
                                    strength_bar(relationships[i].strength)],
                        !.avg = [num |-> Len(relationships),
                                 den |-> Len(entities)]]
    /\ UNCHANGED <<in_flight, variant, store>>

----------------------------------------------------------------------------
(* GraphRenderer: the exports of knowledge_graph_demo.py *)

UpperChar(c) ==
    CASE c = "a" -> "A" [] c = "b" -> "B" [] c = "c" -> "C" [] c = "d" -> "D"
      [] c = "e" -> "E" [] c = "f" -> "F" [] c = "g" -> "G" [] c = "h" -> "H"
      [] c = "i" -> "I" [] c = "j" -> "J" [] c = "k" -> "K" [] c = "l" -> "L"
      [] c = "m" -> "M" [] c = "n" -> "N" [] c = "o" -> "O" [] c = "p" -> "P"
      [] c = "q" -> "Q" [] c = "r" -> "R" [] c = "s" -> "S" [] c = "t" -> "T"
      [] c = "u" -> "U" [] c = "v" -> "V" [] c = "w" -> "W" [] c = "x" -> "X"
      [] c = "y" -> "Y" [] c = "z" -> "Z" [] OTHER -> c

RECURSIVE Upper(_)
Upper(s) ==
    IF Len(s) = 0 THEN ""
    ELSE UpperChar(SubSeq(s, 1, 1)) \o Upper(SubSeq(s, 2, Len(s)))

\* s.replace(old, new) for a one-character old
RECURSIVE Replace(_, _, _)
Replace(s, old, new) ==
    IF Len(s) = 0 THEN ""
    ELSE (IF SubSeq(s, 1, 1) = old THEN new ELSE SubSeq(s, 1, 1))
            \o Replace(SubSeq(s, 2, Len(s)), old, new)

RECURSIVE Concat(_)
Concat(seqs) == IF seqs = <<>> THEN <<>> ELSE Head(seqs) \o Concat(Tail(seqs))

\* One line of the diagram source.  A node line is  id["label"],  an edge
\* line  id -->|label| to,  a style line  style id fill:label,  a scale line
\* the comment naming the scale.
MermaidLine(kind, id, label, to) ==
    [kind |-> kind, id |-> id, label |-> label, to |-> to]

scales == <<"domain", "system", "component", "atomic">>

colors ==
    << [key |-> "Person", color |-> "#e1f5fe"],
       [key |-> "Project", color |-> "#f3e5f5"],
       [key |-> "Technology", color |-> "#fff3e0"],
       [key |-> "Concept", color |-> "#e8f5e9"],
       [key |-> "Task", color |-> "#fff9c4"],
       [key |-> "Preference", color |-> "#fce4ec"] >>

\* colors.get(type, default)
colors_get(type, default) ==
    IF \E i \in 1..Len(colors) : colors[i].key = type
    THEN colors[CHOOSE i \in 1..Len(colors) : colors[i].key = type].color
    ELSE default

\* A label that would be the name as stored
node_label_raw(name) == name

node_label(name) == Replace(name, "\"", "'")

\* the body of "for scale in scales" for one scale
scale_group(es, scale) ==
    LET entities_in_scale == SelectSeq(es, LAMBDA e : e.scale = scale)
    IN  IF entities_in_scale = <<>>
        THEN <<>>
        ELSE <<MermaidLine("scale", "", Upper(scale), "")>>
                \o [i \in 1..Len(entities_in_scale) |->
                       MermaidLine("node", entities_in_scale[i].id,
                                   node_label(entities_in_scale[i].name), "")]
                \o <<MermaidLine("blank", "", "", "")>>

\* A styling pass that would skip the types the palette does not name
styling_palette_only(es) ==
    LET known == SelectSeq(es, LAMBDA e :
                    \E i \in 1..Len(colors) : colors[i].key = e.type)
    IN  [i \in 1..Len(known) |->
            MermaidLine("style", known[i].id,
                        colors_get(known[i].type, "#ffffff"), "")]

styling(es) ==
    [i \in 1..Len(es) |->
        MermaidLine("style", es[i].id, colors_get(es[i].type, "#ffffff"), "")]

to_mermaid_lines(es, rs) ==
    << MermaidLine("graph", "", "graph TB", ""),
       MermaidLine("blank", "", "", ""),
       MermaidLine("comment", "", "RAW MEMENTOS", "") >>
        \o Concat([i \in 1..Len(scales) |-> scale_group(es, scales[i])])
        \o <<MermaidLine("comment", "", "RELATIONSHIPS", "")>>
        \o [i \in 1..Len(rs) |->
               MermaidLine("edge", rs[i].from_entity,
                           Replace(rs[i].relation_type, "_", " "),
                           rs[i].to_entity)]
        \o << MermaidLine("blank", "", "", ""),
              MermaidLine("comment", "", "STYLING", "") >>
        \o styling(es)

to_mermaid ==
    /\ variant = "kg_demo"
    /\ ret' = [NoCall EXCEPT !.op = "to_mermaid", !.outcome = "ok",
                             !.lines = to_mermaid_lines(entities, relationships)]
    /\ UNCHANGED <<in_flight, variant, store>>

\* A string the load script places between double quotes: the stored value
\* and the text that is written between the quotes
Quoted(value, lit) == [value |-> value, lit |-> lit]

\* One statement of the load script (a CREATE spans several lines of the
\* text); comment and blank lines are kept, each as one element
CypherStatement(kind, id, to, label, quoted) ==
    [kind |-> kind, id |-> id, to |-> to, label |-> label, quoted |-> quoted]

property_values(properties) ==
    [i \in 1..Len(properties) |->
        Quoted(properties[i].value, properties[i].value)]

memento_statement(m) ==
    CypherStatement("memento", m.id, "", "Memento",
        << Quoted(m.id, m.id),
           Quoted(m.content, Replace(m.content, "\"", "\\\"")),
           Quoted(m.timestamp, m.timestamp),
           Quoted(m.source, m.source) >>)

entity_statement(e) ==
    CypherStatement("entity", e.id, "", e.type,
        << Quoted(e.id, e.id), Quoted(e.name, e.name),
           Quoted(e.scale, e.scale) >> \o property_values(e.properties))

relationship_statement(rel) ==
    CypherStatement("relationship", rel.from_entity, rel.to_entity,
        Replace(Upper(rel.relation_type), " ", "_"),
        property_values(rel.properties))

extraction_statements(e) ==
    [k \in 1..Len(e.source_mementos) |->
        CypherStatement("extracted", e.source_mementos[k], e.id,
                        "EXTRACTED_TO", <<>>)]

CypherComment(text) == CypherStatement("comment", "", "", text, <<>>)
CypherBlank == CypherStatement("blank", "", "", "", <<>>)

\* A script that would create the entities before the mementos
to_neo4j_cypher_entities_first(ms, es, rs) ==
    << CypherComment("Knowledge Graph Demo - Neo4j Cypher Script"),
       CypherBlank,
       CypherComment("Clean slate"),
       CypherStatement("clear", "", "", "MATCH (n) DETACH DELETE n;", <<>>),
       CypherBlank,
       CypherComment("ENTITIES") >>
        \o [i \in 1..Len(es) |-> entity_statement(es[i])]
        \o <<CypherBlank, CypherComment("RAW MEMENTOS")>>
        \o [i \in 1..Len(ms) |-> memento_statement(ms[i])]
        \o <<CypherBlank, CypherComment("RELATIONSHIPS")>>
        \o [i \in 1..Len(rs) |-> relationship_statement(rs[i])]
        \o <<CypherBlank, CypherComment("MEMENTO -> ENTITY EXTRACTION")>>
        \o Concat([i \in 1..Len(es) |-> extraction_statements(es[i])])

to_neo4j_cypher_lines(ms, es, rs) ==
    << CypherComment("Knowledge Graph Demo - Neo4j Cypher Script"),
       CypherBlank,
       CypherComment("Clean slate"),
       CypherStatement("clear", "", "", "MATCH (n) DETACH DELETE n;", <<>>),
       CypherBlank,
       CypherComment("RAW MEMENTOS") >>
        \o [i \in 1..Len(ms) |-> memento_statement(ms[i])]
        \o <<CypherBlank, CypherComment("ENTITIES")>>
        \o [i \in 1..Len(es) |-> entity_statement(es[i])]
        \o <<CypherBlank, CypherComment("RELATIONSHIPS")>>
        \o [i \in 1..Len(rs) |-> relationship_statement(rs[i])]
        \o <<CypherBlank, CypherComment("MEMENTO -> ENTITY EXTRACTION")>>
        \o Concat([i \in 1..Len(es) |-> extraction_statements(es[i])])

to_neo4j_cypher ==
    /\ variant = "kg_demo"
    /\ ret' = [NoCall EXCEPT
                  !.op = "to_neo4j_cypher", !.outcome = "ok",
                  !.lines = to_neo4j_cypher_lines(mementos, entities,
                                                  relationships)]
    /\ UNCHANGED <<in_flight, variant, store>>

\* asdict(): the fields of the prototype's dataclasses under their own names
asdict_memento(m) ==
    [id |-> m.id, content |-> m.content, timestamp |-> m.timestamp,
     source |-> m.source]

asdict_entity(e) ==
    [id |-> e.id, name |-> e.name, type |-> e.type,
     properties |-> e.properties, scale |-> e.scale,
     extracted_from |-> e.source_mementos]

asdict_relationship(rel) ==
    [source |-> rel.from_entity, target |-> rel.to_entity,
     type |-> rel.relation_type, properties |-> rel.properties,
     extracted_from |-> rel.evidence]

\* A counter that would open a new entry for every record, whether or not
\* its key has been counted before
count_increment_new_entry(counts, key) ==
    Append(counts, [key |-> key, count |-> 1])

\* counts[key] += 1 on a defaultdict(int), kept in the order of the keys
count_increment(counts, key) ==
    IF \E i \in 1..Len(counts) : counts[i].key = key
    THEN [i \in 1..Len(counts) |->
            IF counts[i].key = key
            THEN [key |-> key, count |-> counts[i].count + 1]
            ELSE counts[i]]
    ELSE Append(counts, [key |-> key, count |-> 1])

RECURSIVE count_by_type(_)
count_by_type(es) ==
    IF es = <<>> THEN <<>>
    ELSE count_increment(count_by_type(SubSeq(es, 1, Len(es) - 1)),
                         es[Len(es)].type)

RECURSIVE count_by_scale(_)
count_by_scale(es) ==
    IF es = <<>> THEN <<>>
    ELSE count_increment(count_by_scale(SubSeq(es, 1, Len(es) - 1)),
                         es[Len(es)].scale)

to_json_doc(ms, es, rs, h) ==
    [mementos |-> [i \in 1..Len(ms) |-> asdict_memento(ms[i])],
     entities |-> [i \in 1..Len(es) |-> asdict_entity(es[i])],
     relationships |-> [i \in 1..Len(rs) |-> asdict_relationship(rs[i])],
     hierarchy |-> h,
     statistics |->
        [total_mementos |-> Len(ms),
         total_entities |-> Len(es),
         total_relationships |-> Len(rs),
         entities_by_type |-> count_by_type(es),
         entities_by_scale |-> count_by_scale(es)]]

to_json ==
    /\ variant = "kg_demo"
    /\ ret' = [NoCall EXCEPT
                  !.op = "to_json", !.outcome = "ok",
                  !.doc = to_json_doc(mementos, entities, relationships,
                                      hierarchy)]
    /\ UNCHANGED <<in_flight, variant, store>>

----------------------------------------------------------------------------
(* GraphRenderer: the report of demo_graph.py, the summary of the prototype,
   and the point lookup both reports are built on *)

\* self.entities[entity_id]: the value under the key, KeyError without the key
entity_lookup(id) ==
    /\ ret' = IF id \in DictKeys(entities)
              THEN [Returned("entity_lookup", id) EXCEPT
                      !.record = Some(entities[CHOOSE i \in 1..Len(entities) :
                                                  entities[i].id = id])]
              ELSE [Raised("entity_lookup", "KeyError") EXCEPT !.id = id]
    /\ UNCHANGED <<in_flight, variant, store>>

\* one query of the search demo inside visualize(): what
\* self.find_similar_mementos(query, top_k=2) does with the provider's answer
demo_search(query_out) ==
    IF query_out.raises THEN [exc |-> "ProviderError", results |-> <<>>]
    ELSE IF FirstFailure(query_out.value, mementos) # ""
         THEN [exc |-> FirstFailure(query_out.value, mementos), results |-> <<>>]
         ELSE [exc |-> "",
               results |-> SlicePrefix(sort_by_score_desc(
                              Similarities(query_out.value, mementos)), 2)]

\* A report that would read self.hierarchy["Person"] whether or not the key
\* exists: on a defaultdict the read creates the missing key
visualize_reading_person_bucket(query_out1, query_out2) ==
    /\ variant = "demo_graph"
    /\ ret' = [NoCall EXCEPT !.op = "visualize", !.outcome = "ok"]
    /\ hierarchy' = IF \E i \in 1..Len(hierarchy) : hierarchy[i].key = "Person"
                    THEN hierarchy
                    ELSE Append(hierarchy, [key |-> "Person", items |-> <<>>])
    /\ UNCHANGED <<in_flight, variant, mementos, entities, relationships>>

\* visualize() of demo_graph.py: Layer 1 takes len(memento.embedding), Layer 2
\* and Layer 3 look the IDs up, Layer 3 draws "█" * int(rel.strength * 10) and
\* no unfilled glyphs, then two searches with top_k=2 are run
visualize(query_out1, query_out2) ==
    /\ variant = "demo_graph"
    /\ LET call == [NoCall EXCEPT !.op = "visualize"]
           failed(exc) == [call EXCEPT !.outcome = "raise", !.exc = exc]
           first == demo_search(query_out1)
           second == demo_search(query_out2)
       IN  IF Embedded # 1..Len(mementos) THEN ret' = failed("TypeError")
           ELSE IF UnresolvedLookup THEN ret' = failed("KeyError")
           ELSE IF first.exc # ""
                THEN ret' = [failed(first.exc) EXCEPT !.calls = 1]
           ELSE IF second.exc # ""
                THEN ret' = [failed(second.exc) EXCEPT !.calls = 2]
           ELSE ret' = [call EXCEPT
                   !.outcome = "ok", !.calls = 2,
                   !.bars = [i \in 1..Len(relationships) |->
                               [filled |-> Max(0, IntTimes10(relationships[i].strength)),
                                empty |-> 0]],
                   !.searches = <<first.results, second.results>>]
    /\ UNCHANGED <<in_flight, variant, store>>

\* print_summary() of the prototype: counts and names; the relationship lines
\* look both endpoints up in self.entities
print_summary ==
    /\ variant = "kg_demo"
    /\ LET call == [NoCall EXCEPT !.op = "print_summary"]
       IN  IF \E i \in 1..Len(relationships) :
                 \/ relationships[i].from_entity \notin DictKeys(entities)
                 \/ relationships[i].to_entity \notin DictKeys(entities)
           THEN ret' = [call EXCEPT !.outcome = "raise", !.exc = "KeyError"]
           ELSE ret' = [call EXCEPT !.outcome = "ok"]
    /\ UNCHANGED <<in_flight, variant, store>>

----------------------------------------------------------------------------
(* The store under its mutation API *)

EmptyStore ==
    /\ mementos = <<>>
    /\ entities = <<>>
    /\ relationships = <<>>
    /\ hierarchy = <<>>
    /\ ret = NoCall
    /\ in_flight = [t \in Callers |-> Idle]

Init ==
    /\ variant \in Variants
    /\ EmptyStore

AddMemento ==
    \E c \in Contents, t \in Timestamps, out \in StoreOutcomes :
        add_memento(c, t, out)

SimpleAddMemento ==
    \E c \in Contents, t \in Timestamps : simple_add_memento(c, t)

AddEntity ==
    \E a \in EntityArgs, p \in PropertyBags :
        add_entity(a.type, a.name, p, a.source_mementos)

AddRelationship ==
    \E a \in RelationshipArgs, r \in Relations, s \in Strengths :
        add_relationship(a.from, a.to, r, s, a.evidence)

ProtoAddMemento ==
    \E id \in ProtoMementoIds, c \in Contents, t \in Timestamps :
        proto_add_memento(Memento(id, c, t, NoneVal, "conversation"))

ProtoAddEntity ==
    \E e \in ProtoEntities : proto_add_entity(e)

ProtoAddRelationship ==
    \E a \in RelationshipArgs, r \in Relations, p \in PropertyBags :
        proto_add_relationship(Relationship(a.from, a.to, r, 100, a.evidence, p))

AddHierarchy ==
    \E p \in ProtoHierarchyIds, c \in ProtoHierarchyIds : add_hierarchy(p, c)

SimpleVisualize == simple_visualize

Next ==
    \/ AddMemento
    \/ SimpleAddMemento
    \/ AddEntity
    \/ AddRelationship
    \/ ProtoAddMemento
    \/ ProtoAddEntity
    \/ ProtoAddRelationship
    \/ AddHierarchy
    \/ SimpleVisualize

Spec == Init /\ [][Next]_vars

----------------------------------------------------------------------------
(* The store of demo_graph.py under add_memento and the similarity search *)

EmbVectors == {<<1, 0>>, <<0, 1>>, <<1, 1>>, <<0 - 1, 0>>, <<0, 0>>}
QueryVectors == {<<1, 0>>, <<1, 1>>, <<0, 0>>}

SearchOutcomes ==
    {ProviderReturns(Some(v)) : v \in EmbVectors}
        \cup {ProviderReturns(NoneVal), ProviderRaises}

QueryOutcomes ==
    {ProviderReturns(Some(v)) : v \in QueryVectors}
        \cup {ProviderReturns(NoneVal), ProviderRaises}

TopKs == (0 - MaxNegTopK)..MaxTopK

SearchInit ==
    /\ variant = "demo_graph"
    /\ EmptyStore

SearchAddMemento ==
    \E c \in Contents, t \in Timestamps, out \in SearchOutcomes :
        add_memento(c, t, out)

FindSimilar ==
    \E out \in QueryOutcomes, k \in TopKs : find_similar_mementos(out, k)

SearchNext ==
    \/ SearchAddMemento
    \/ FindSimilar

SpecSearch == SearchInit /\ [][SearchNext]_vars

----------------------------------------------------------------------------
(* The store of knowledge_graph_demo.py under its mutation API and exports *)

RenderMementos ==
    { Memento("m1", "User works on Memento", "2025-11-16T00:01:00Z", NoneVal,
              "conversation"),
      Memento("m2", "User said \"ship it\"", "2025-11-16T00:02:00Z", NoneVal,
              "the \"standup\" notes") }

RenderEntities ==
    { Entity("e_user", "Person", "Alice \"Al\" Doe",
             <<[key |-> "role", value |-> "the \"lead\""]>>, "domain",
             <<"m1", "m2">>),
      Entity("e_user", "Gadget", "Alicia", <<>>, "galaxy", <<"m1", "m1">>),
      Entity("e_acme", "Project", "Acme", <<[key |-> "status", value |-> "active"]>>,
             "atomic", <<"m2">>) }

RenderRelationships ==
    { Relationship("e_user", "e_acme", "WORKS_ON", 100, <<"m1">>,
                   <<[key |-> "note", value |-> "since \"v1\""]>>),
      Relationship("e_acme", "e_missing", "depends on", 100, <<>>, <<>>) }

RenderHierarchy ==
    { <<"e_user", "e_acme">>, <<"e_acme", "e_user">> }

RenderInit ==
    /\ variant = "kg_demo"
    /\ EmptyStore

RenderAddMemento == \E m \in RenderMementos : proto_add_memento(m)
RenderAddEntity == \E e \in RenderEntities : proto_add_entity(e)
RenderAddRelationship ==
    \E rel \in RenderRelationships : proto_add_relationship(rel)
RenderAddHierarchy ==
    \E pc \in RenderHierarchy : add_hierarchy(pc[1], pc[2])

ToMermaid == to_mermaid
ToNeo4jCypher == to_neo4j_cypher
ToJson == to_json

RenderNext ==
    \/ RenderAddMemento
    \/ RenderAddEntity
    \/ RenderAddRelationship
    \/ RenderAddHierarchy
    \/ ToMermaid
    \/ ToNeo4jCypher
    \/ ToJson

SpecRender == RenderInit /\ [][RenderNext]_vars

----------------------------------------------------------------------------
(* The three stores under their mutation API, their reports and lookups *)

ReportEntityArgs ==
    { [type |-> "Person", name |-> "Alice", source_mementos |-> <<"m1">>],
      [type |-> "Project", name |-> "Acme", source_mementos |-> <<"m2">>] }

ReportRelationshipArgs ==
    { [from |-> "e1_person", to |-> "e2_project", evidence |-> <<"m1">>],
      [from |-> "e1_person", to |-> "e99_missing", evidence |-> <<>>] }

\* strength in hundredths: 0.3 and 0.95 lie in [0,1], 1.5 lies outside
ReportStrengths == {30, 95, 150}

ReportProtoEntities ==
    { Entity("e1_person", "Person", "Alice", <<>>, "domain", <<"m1">>),
      Entity("e2_project", "Project", "Acme", <<>>, "domain", <<"m1">>) }

ReportHierarchy == { <<"e1_person", "e2_project">>, <<"e1_person", "e1_person">> }

ReportQueryOutcomes == {ProviderReturns(Some(<<1, 0>>)), ProviderRaises}

LookupIds == {"e1_person", "e99_missing"}

ReportInit ==
    /\ variant \in Variants
    /\ EmptyStore

ReportAddEntity ==
    \E a \in ReportEntityArgs, p \in PropertyBags :
        add_entity(a.type, a.name, p, a.source_mementos)

ReportAddRelationship ==
    \E a \in ReportRelationshipArgs, r \in Relations, s \in ReportStrengths :
        add_relationship(a.from, a.to, r, s, a.evidence)

ReportProtoAddMemento ==
    \E c \in Contents, t \in Timestamps :
        proto_add_memento(Memento("m1", c, t, NoneVal, "conversation"))

ReportProtoAddEntity ==
    \E e \in ReportProtoEntities : proto_add_entity(e)

ReportProtoAddRelationship ==
    \E a \in ReportRelationshipArgs, r \in Relations, p \in PropertyBags :
        proto_add_relationship(Relationship(a.from, a.to, r, 100, a.evidence, p))

ReportAddHierarchy ==
    \E pc \in ReportHierarchy : add_hierarchy(pc[1], pc[2])

Visualize ==
    \E q1 \in ReportQueryOutcomes, q2 \in ReportQueryOutcomes : visualize(q1, q2)

ReportFindSimilar ==
    \E out \in ReportQueryOutcomes, k \in {2} : find_similar_mementos(out, k)

PrintSummary == print_summary

EntityLookup == \E id \in LookupIds : entity_lookup(id)

ReportNext ==
    \/ AddMemento
    \/ SimpleAddMemento
    \/ ReportAddEntity
    \/ ReportAddRelationship
    \/ ReportProtoAddMemento
    \/ ReportProtoAddEntity
    \/ ReportProtoAddRelationship
    \/ ReportAddHierarchy
    \/ Visualize
    \/ SimpleVisualize
    \/ ReportFindSimilar
    \/ PrintSummary
    \/ ToMermaid
    \/ ToNeo4jCypher
    \/ ToJson
    \/ EntityLookup

SpecReport == ReportInit /\ [][ReportNext]_vars

----------------------------------------------------------------------------
(* Factory.create_embedder *)

\* Config: the three fields create_embedder reads
Providers == {"local", "Local", "LOCAL", " local", "openai", "unsupported", ""}
Models ==
    {"sentence-transformers/all-MiniLM-L6-v2", "some-model", "all-mpnet-base-v2",
     "no-such-model", ""}
CacheDirs == {".cache/models", ".cache/test", ""}

Configs ==
    [embedding_provider : Providers, embedding_model : Models,
     embedding_cache_dir : CacheDirs]

\* LocalEmbeddingProvider(model_name, cache_dir): the object, or the failure
\* of SentenceTransformer(model_name, cache_folder=cache_dir) to load the model
ConstructorOutcomes == {"returns", "raises"}

LocalEmbeddingProvider(model_name, cache_dir) ==
    [class |-> "LocalEmbeddingProvider", model_name |-> model_name,
     cache_dir |-> cache_dir]

\* A factory that would hand out the local provider for every provider value
create_embedder_always_local(config, constructor) ==
    /\ variant = "no_graph"
    /\ LET call == [NoCall EXCEPT
                      !.op = "create_embedder", !.config = config,
                      !.built = <<[model_name |-> config.embedding_model,
                                   cache_dir |-> config.embedding_cache_dir]>>]
       IN  IF constructor = "raises"
           THEN ret' = [call EXCEPT !.outcome = "raise", !.exc = "ConstructorError"]
           ELSE ret' = [call EXCEPT
                   !.outcome = "ok",
                   !.record = Some(LocalEmbeddingProvider(
                       config.embedding_model, config.embedding_cache_dir))]
    /\ UNCHANGED <<in_flight, variant, store>>

create_embedder(config, constructor) ==
    /\ variant = "no_graph"
    /\ LET call == [NoCall EXCEPT !.op = "create_embedder", !.config = config]
           built == [call EXCEPT
                       !.built = <<[model_name |-> config.embedding_model,
                                    cache_dir |-> config.embedding_cache_dir]>>]
       IN  IF config.embedding_provider = "local"
           THEN IF constructor = "raises"
                THEN ret' = [built EXCEPT !.outcome = "raise",
                                          !.exc = "ConstructorError"]
                ELSE ret' = [built EXCEPT
                        !.outcome = "ok",
                        !.record = Some(LocalEmbeddingProvider(
                            config.embedding_model, config.embedding_cache_dir))]
           ELSE ret' = [call EXCEPT
                   !.outcome = "raise", !.exc = "ValueError",
                   !.message = "Unsupported provider: "
                                  \o config.embedding_provider
                                  \o ". Supported providers: local"]
    /\ UNCHANGED <<in_flight, variant, store>>

FactoryInit ==
    /\ variant = "no_graph"
    /\ EmptyStore

CreateEmbedder ==
    \E config \in Configs, constructor \in ConstructorOutcomes :
        create_embedder(config, constructor)

FactoryNext == CreateEmbedder

SpecFactory == FactoryInit /\ [][FactoryNext]_vars

----------------------------------------------------------------------------
(* add_memento of demo_graph.py called by two callers on one store.  The
   method holds no lock; its three steps are the statements of its body. *)

ConcurrentContents == {"first observation", "second observation"}
ConcurrentOutcomes ==
    {ProviderReturns(Some(<<1, 0>>)), ProviderReturns(Some(<<0, 1>>)),
     ProviderRaises}

\* memento_id = f"m{len(self.mementos) + 1}"
derive_id(t, content, timestamp) ==
    /\ variant = "demo_graph"
    /\ in_flight[t].pc = "idle"
    /\ Len(mementos) < MaxMementos
    /\ in_flight' = [in_flight EXCEPT ![t] =
                        [pc |-> "derived", id |-> memento_id(mementos),
                         content |-> content, timestamp |-> timestamp,
                         embedding |-> NoneVal]]
    /\ UNCHANGED <<variant, store, ret>>

\* embedding = self.embedder.generate_embedding(content)
call_provider(t, out) ==
    /\ variant = "demo_graph"
    /\ in_flight[t].pc = "derived"
    /\ IF out.raises
       THEN /\ in_flight' = [in_flight EXCEPT ![t] = Idle]
            /\ ret' = Called(Raised("add_memento", "ProviderError"), out)
       ELSE /\ in_flight' = [in_flight EXCEPT ![t].pc = "embedded",
                                              ![t].embedding = out.value]
            /\ UNCHANGED ret
    /\ UNCHANGED <<variant, store>>

\* self.mementos[memento_id] = memento; return memento
store_memento(t) ==
    /\ variant = "demo_graph"
    /\ in_flight[t].pc = "embedded"
    /\ mementos' = DictSet(mementos,
                       Memento(in_flight[t].id, in_flight[t].content,
                               in_flight[t].timestamp, in_flight[t].embedding, ""))
    /\ ret' = [Returned("add_memento", in_flight[t].id) EXCEPT
                  !.provider = "returned", !.calls = 1]
    /\ in_flight' = [in_flight EXCEPT ![t] = Idle]
    /\ UNCHANGED <<variant, entities, relationships, hierarchy>>

ConcurrentInit ==
    /\ variant = "demo_graph"
    /\ EmptyStore

DeriveId ==
    \E t \in Callers, c \in ConcurrentContents, ts \in Timestamps :
        derive_id(t, c, ts)

CallProvider ==
    \E t \in Callers, out \in ConcurrentOutcomes : call_provider(t, out)

StoreMemento == \E t \in Callers : store_memento(t)

ConcurrentNext ==
    \/ DeriveId
    \/ CallProvider
    \/ StoreMemento

SpecConcurrent == ConcurrentInit /\ [][ConcurrentNext]_vars

----------------------------------------------------------------------------
(* Properties of the store *)

Digit(c) ==
    CASE c = "0" -> 0 [] c = "1" -> 1 [] c = "2" -> 2 [] c = "3" -> 3
      [] c = "4" -> 4 [] c = "5" -> 5 [] c = "6" -> 6 [] c = "7" -> 7
      [] c = "8" -> 8 [] c = "9" -> 9

RECURSIVE ParseNat(_, _)
ParseNat(s, acc) ==
    IF Len(s) = 0 THEN acc
    ELSE ParseNat(SubSeq(s, 2, Len(s)), 10 * acc + Digit(SubSeq(s, 1, 1)))

\* the N of an ID m<N>
NumericPart(id) == ParseNat(SubSeq(id, 2, Len(id)), 0)

HasUnknown(ids, known) == \E k \in 1..Len(ids) : ids[k] \notin known

IsCall(r, op) == r.op = op

\* C1: the IDs handed out by addMemento are strictly increasing in their
\* numeric part and never repeat: the mementos of the store, in the order of
\* the calls that added them, carry strictly increasing numbers, and a call
\* that returns a record returns the one it stored under the newest ID.
C1_MementoIdsStrictlyIncreasing ==
    /\ \A i, j \in 1..Len(mementos) :
          i < j => NumericPart(mementos[i].id) < NumericPart(mementos[j].id)
    /\ (IsCall(ret, "add_memento") /\ ret.outcome = "ok" /\ ret.id # "")
          => ret.id = mementos[Len(mementos)].id

\* C2: a step that is an addEntity call whose source-memento list names an
\* ID that is no stored memento ends in ReferentialError and leaves the
\* mementos, entities, relationships and hierarchy as they were.
C2_AddEntityUnknownSourceFails ==
    [][ (IsCall(ret', "add_entity") /\ HasUnknown(ret'.mids, DictKeys(mementos)))
          => /\ ret'.outcome = "raise"
             /\ ret'.exc = "ReferentialError"
             /\ UNCHANGED store ]_vars

\* C3: a step that is an addRelationship call with an endpoint that is no
\* stored entity, or an evidence ID that is no stored memento, ends in
\* ReferentialError and leaves the relationship sequence as it was.
C3_AddRelationshipUnknownRefFails ==
    [][ ( /\ IsCall(ret', "add_relationship")
          /\ \/ ret'.from \notin DictKeys(entities)
             \/ ret'.to \notin DictKeys(entities)
             \/ HasUnknown(ret'.mids, DictKeys(mementos)) )
          => /\ ret'.outcome = "raise"
             /\ ret'.exc = "ReferentialError"
             /\ relationships' = relationships ]_vars

\* C4: in every reachable state every relationship's endpoints are stored
\* entities, every relationship's evidence IDs are stored mementos and every
\* entity's source mementos are stored mementos.
C4_ReferentialIntegrity ==
    /\ \A i \in 1..Len(relationships) :
          /\ relationships[i].from_entity \in DictKeys(entities)
          /\ relationships[i].to_entity \in DictKeys(entities)
          /\ ~HasUnknown(relationships[i].evidence, DictKeys(mementos))
    /\ \A i \in 1..Len(entities) :
          ~HasUnknown(entities[i].source_mementos, DictKeys(mementos))

RECURSIVE IdsOfType(_, _)
IdsOfType(es, t) ==
    IF es = <<>> THEN <<>>
    ELSE IF Head(es).type = t
         THEN <<Head(es).id>> \o IdsOfType(Tail(es), t)
         ELSE IdsOfType(Tail(es), t)

\* C5: the hierarchy maps each entity type to exactly the IDs of the stored
\* entities of that type, in insertion order, each once, and has no key for a
\* type without an entity.
C5_HierarchyIsTypeIndex ==
    /\ {hierarchy[i].key : i \in 1..Len(hierarchy)}
          = {entities[i].type : i \in 1..Len(entities)}
    /\ \A i \in 1..Len(hierarchy) :
          hierarchy[i].items = IdsOfType(entities, hierarchy[i].key)

\* C6: the store is append-only: in every step each stored memento, entity
\* and relationship is kept with all its fields, and no collection shrinks.
C6_AppendOnly ==
    [][ /\ Len(mementos') >= Len(mementos)
        /\ Len(entities') >= Len(entities)
        /\ Len(relationships') >= Len(relationships)
        /\ \A i \in 1..Len(mementos) : mementos'[i] = mementos[i]
        /\ \A i \in 1..Len(entities) : entities'[i] = entities[i]
        /\ \A i \in 1..Len(relationships) : relationships'[i] = relationships[i]
      ]_vars

----------------------------------------------------------------------------
(* Properties of the similarity search *)

SearchReturned == IsCall(ret, "find_similar_mementos") /\ ret.outcome = "ok"

\* the place of a result's memento in the insertion order of the store
PositionOf(id) == CHOOSE i \in 1..Len(mementos) : mementos[i].id = id

ResultIds == {ret.results[i].id : i \in 1..Len(ret.results)}

\* C7: findSimilar returns its pairs in non-increasing score order, and two
\* returned mementos with equal score appear in the order of their insertion.
C7_ResultsSortedStable ==
    SearchReturned =>
        \A i, j \in 1..Len(ret.results) :
            i < j =>
                /\ ~ScoreLess(ret.results[i].score, ret.results[j].score)
                /\ ScoreEq(ret.results[i].score, ret.results[j].score)
                      => PositionOf(ret.results[i].id) < PositionOf(ret.results[j].id)

\* a search has returned three or more pairs, two of them with equal score
\* and two with different scores
C7_Witness ==
    /\ SearchReturned
    /\ Len(ret.results) >= 3
    /\ \E i, j \in 1..Len(ret.results) :
          i < j /\ ScoreEq(ret.results[i].score, ret.results[j].score)
    /\ \E i, j \in 1..Len(ret.results) :
          i < j /\ ScoreLess(ret.results[j].score, ret.results[i].score)

\* C8: findSimilar returns the first topK entries of the ranking: nothing for
\* topK <= 0, exactly topK entries for 0 < topK < number of scored mementos,
\* and every scored memento for topK >= that number.
C8_TopKPrefix ==
    SearchReturned =>
        /\ Len(ret.results) =
              IF ret.top_k <= 0 THEN 0 ELSE Min(ret.top_k, Len(mementos))
        /\ ret.top_k >= Len(mementos)
              => ResultIds = DictKeys(mementos)

\* C9: findSimilar on a store in which no memento carries an embedding (the
\* empty store included) raises EmptyCorpusError, whatever topK is (the
\* provider having answered the query).
C9_EmptyCorpusRaises ==
    ( /\ IsCall(ret, "find_similar_mementos")
      /\ ret.query.some
      /\ Embedded = {} )
        => ret.outcome = "raise" /\ ret.exc = "EmptyCorpusError"

\* C10: in findSimilar a stored memento without an embedding is left out of
\* the scored list, neither scored nor making the search fail, while every
\* memento with an embedding is scored (the query and the stored vectors
\* having a norm other than zero, topK not negative).
C10_UnembeddedLeftOut ==
    ( /\ IsCall(ret, "find_similar_mementos")
      /\ ret.exc # "ProviderError"
      /\ ret.query.some /\ SumSq(ret.query.v) # 0
      /\ ret.top_k >= 0
      /\ Embedded # {}
      /\ Embedded # 1..Len(mementos)
      /\ \A i \in Embedded : SumSq(mementos[i].embedding.v) # 0 )
        => /\ ret.outcome = "ok"
           /\ \A i \in 1..Len(mementos) :
                 mementos[i].id \in ResultIds => i \in Embedded
           /\ ret.top_k >= Len(mementos)
                 => \A i \in Embedded : mementos[i].id \in ResultIds

----------------------------------------------------------------------------
(* Properties of the scoring *)

\* C11: when the query embedding or a memento embedding has norm zero,
\* findSimilar completes normally and gives that memento the score 0.0 (every
\* stored memento carrying an embedding, the query being a vector, topK
\* covering the whole store).
C11_ZeroNormScoresZero ==
    ( /\ IsCall(ret, "find_similar_mementos")
      /\ ret.query.some
      /\ Embedded = 1..Len(mementos)
      /\ ret.top_k >= Len(mementos)
      /\ \/ SumSq(ret.query.v) = 0
         \/ \E i \in Embedded : SumSq(mementos[i].embedding.v) = 0 )
        => /\ ret.outcome = "ok"
           /\ \A i \in Embedded :
                 SumSq(ret.query.v) * SumSq(mementos[i].embedding.v) = 0
                    => \E k \in 1..Len(ret.results) :
                          /\ ret.results[k].id = mementos[i].id
                          /\ ret.results[k].score.dot = 0

----------------------------------------------------------------------------
(* Properties of the text report *)

\* C12: the average-relationships-per-entity statistic of the text report is
\* len(relationships) / len(entities) when the store has an entity and 0.0
\* when it has none; the report of a store without entities never ends in an
\* arithmetic failure.
C12_AverageDefinedOnEmpty ==
    (IsCall(ret, "visualize") /\ variant = "demo_graph_simple")
        => /\ ret.exc # "ZeroDivisionError"
           /\ ret.outcome = "ok" =>
                 IF Len(entities) = 0
                 THEN ret.avg.num = 0
                 ELSE ret.avg.num * Len(entities)
                         = Len(relationships) * ret.avg.den

----------------------------------------------------------------------------
(* Properties of the exports of knowledge_graph_demo.py *)

\* Re-ingesting an exported document into a fresh store: Memento(**d),
\* Entity(**d), Relationship(**d) for the list entries, handed to add_memento,
\* add_entity, add_relationship in list order, and add_hierarchy(parent, child)
\* for every child of every parent in the order of the mapping
RECURSIVE ReAddMementos(_, _)
ReAddMementos(ds, ms) ==
    IF ds = <<>> THEN ms
    ELSE ReAddMementos(Tail(ds),
            Append(ms, Memento(Head(ds).id, Head(ds).content,
                               Head(ds).timestamp, NoneVal, Head(ds).source)))

RECURSIVE ReAddEntities(_, _)
ReAddEntities(ds, es) ==
    IF ds = <<>> THEN es
    ELSE ReAddEntities(Tail(ds),
            DictSet(es, Entity(Head(ds).id, Head(ds).type, Head(ds).name,
                               Head(ds).properties, Head(ds).scale,
                               Head(ds).extracted_from)))

RECURSIVE ReAddRelationships(_, _)
ReAddRelationships(ds, rs) ==
    IF ds = <<>> THEN rs
    ELSE ReAddRelationships(Tail(ds),
            Append(rs, Relationship(Head(ds).source, Head(ds).target,
                                    Head(ds).type, 100,
                                    Head(ds).extracted_from,
                                    Head(ds).properties)))

RECURSIVE ReAddChildren(_, _, _)
ReAddChildren(parent, children, h) ==
    IF children = <<>> THEN h
    ELSE ReAddChildren(parent, Tail(children),
                       DefaultDictAppend(h, parent, Head(children)))

RECURSIVE ReAddHierarchy(_, _)
ReAddHierarchy(d, h) ==
    IF d = <<>> THEN h
    ELSE ReAddHierarchy(Tail(d), ReAddChildren(Head(d).key, Head(d).items, h))

ReExport(doc) ==
    to_json_doc(ReAddMementos(doc.mementos, <<>>),
                ReAddEntities(doc.entities, <<>>),
                ReAddRelationships(doc.relationships, <<>>),
                ReAddHierarchy(doc.hierarchy, <<>>))

\* C13: exporting a store, re-ingesting the exported mementos, entities,
\* relationships and hierarchy into a fresh store through the mutation API and
\* exporting again gives a document identical to the first export.
C13_ExportRoundTrip ==
    IsCall(ret, "to_json") => ReExport(ret.doc) = ret.doc

\* an export of a store whose entity dict saw an overwrite and whose hierarchy
\* has two parents, the later one created first
C13_Witness ==
    /\ IsCall(ret, "to_json")
    /\ Len(ret.doc.mementos) >= 2
    /\ Len(ret.doc.entities) = 2
    /\ ret.doc.entities[1].name = "Alicia"
    /\ Len(ret.doc.relationships) >= 1
    /\ Len(ret.doc.hierarchy) = 2
    /\ ret.doc.hierarchy[1].key = "e_acme"
    /\ ReExport(ret.doc) = ret.doc

\* the statements of a load script: its elements without comments and blanks
Statements(lines) ==
    SelectSeq(lines, LAMBDA l : l.kind \notin {"comment", "blank"})

OfKind(lines, kind) == SelectSeq(lines, LAMBDA l : l.kind = kind)

GroupRank(kind) ==
    CASE kind = "clear" -> 1 [] kind = "memento" -> 2 [] kind = "entity" -> 3
      [] kind = "relationship" -> 4 [] kind = "extracted" -> 5 [] OTHER -> 0

RECURSIVE HasBareQuote(_, _)
HasBareQuote(s, escaped) ==
    IF Len(s) = 0 THEN FALSE
    ELSE LET c == SubSeq(s, 1, 1)
             rest == SubSeq(s, 2, Len(s))
         IN  IF escaped THEN HasBareQuote(rest, FALSE)
             ELSE IF c = "\\" THEN HasBareQuote(rest, TRUE)
             ELSE IF c = "\"" THEN TRUE
             ELSE HasBareQuote(rest, FALSE)

\* C15: in the load script every string value written between double quotes
\* (memento content and source, entity name, scale and property values,
\* relationship property values) has its double quotes escaped, so that no
\* stored value ends its string literal early.
C15_QuotedValuesEscaped ==
    IsCall(ret, "to_neo4j_cypher") =>
        \A i \in 1..Len(ret.lines) :
            \A k \in 1..Len(ret.lines[i].quoted) :
                ~HasBareQuote(ret.lines[i].quoted[k].lit, FALSE)

RECURSIVE ContainsChar(_, _)
ContainsChar(s, c) ==
    IF Len(s) = 0 THEN FALSE
    ELSE SubSeq(s, 1, 1) = c \/ ContainsChar(SubSeq(s, 2, Len(s)), c)

\* C16: in the diagram source no node label contains an unescaped double
\* quote, whatever the entity name contains (the label holds no double quote
\* at all: each one of the name is written as an apostrophe).
C16_LabelHasNoDoubleQuote ==
    IsCall(ret, "to_mermaid") =>
        \A i \in 1..Len(ret.lines) :
            ret.lines[i].kind = "node"
                => /\ ~ContainsChar(ret.lines[i].label, "\"")
                   /\ ~HasBareQuote(ret.lines[i].label, FALSE)

\* a diagram with the node of an entity whose name holds double quotes
C16_Witness ==
    /\ IsCall(ret, "to_mermaid")
    /\ \E i \in 1..Len(entities) :
          /\ ContainsChar(entities[i].name, "\"")
          /\ \E n \in 1..Len(ret.lines) :
                /\ ret.lines[n].kind = "node"
                /\ ret.lines[n].id = entities[i].id
                /\ ret.lines[n].label = "Alice 'Al' Doe"

NodeLinesOf(lines, id) ==
    {n \in 1..Len(lines) : lines[n].kind = "node" /\ lines[n].id = id}

ScaleLines(lines) == OfKind(lines, "scale")

\* C17: the diagram source declares exactly one labeled node for every stored
\* entity, whatever its scale value; the scale groups come in the order domain,
\* system, component, atomic, with a group header only for a scale that has an
\* entity.
C17_OneNodePerEntity ==
    IsCall(ret, "to_mermaid") =>
        /\ \A i \in 1..Len(entities) :
              Cardinality(NodeLinesOf(ret.lines, entities[i].id)) = 1
        /\ Len(OfKind(ret.lines, "node")) = Len(entities)
        /\ \A n \in 1..Len(ScaleLines(ret.lines)) :
              \E i \in 1..Len(entities) :
                  Upper(entities[i].scale) = ScaleLines(ret.lines)[n].label
        /\ \A m, n \in 1..Len(ScaleLines(ret.lines)) :
              m < n => \E a, b \in 1..Len(scales) :
                          /\ a < b
                          /\ ScaleLines(ret.lines)[m].label = Upper(scales[a])
                          /\ ScaleLines(ret.lines)[n].label = Upper(scales[b])

StyleLinesOf(lines, id) ==
    {n \in 1..Len(lines) : lines[n].kind = "style" /\ lines[n].id = id}

PaletteTypes == {colors[i].key : i \in 1..Len(colors)}

\* C18: the diagram source has exactly one style line for every stored entity,
\* with the palette color of its type when the palette names the type and the
\* default neutral color otherwise; no entity is left without a style line.
C18_OneStylePerEntity ==
    IsCall(ret, "to_mermaid") =>
        /\ Len(OfKind(ret.lines, "style")) = Len(entities)
        /\ \A i \in 1..Len(entities) :
              /\ Cardinality(StyleLinesOf(ret.lines, entities[i].id)) = 1
              /\ \A n \in StyleLinesOf(ret.lines, entities[i].id) :
                    IF entities[i].type \in PaletteTypes
                    THEN \E k \in 1..Len(colors) :
                            /\ colors[k].key = entities[i].type
                            /\ ret.lines[n].label = colors[k].color
                    ELSE ret.lines[n].label = "#ffffff"

\* a diagram of a store holding an entity of a palette type and one of a type
\* the palette does not name
C18_Witness ==
    /\ IsCall(ret, "to_mermaid")
    /\ \E i, j \in 1..Len(entities) :
          /\ entities[i].type \in PaletteTypes
          /\ entities[j].type \notin PaletteTypes
          /\ \E n \in StyleLinesOf(ret.lines, entities[j].id) :
                ret.lines[n].label = "#ffffff"
          /\ \E n \in StyleLinesOf(ret.lines, entities[i].id) :
                ret.lines[n].label = "#f3e5f5"

----------------------------------------------------------------------------
(* Properties of the provider's failures *)

C19_Step ==
    /\ (ret'.op \in {"add_memento", "find_similar_mementos"}
            /\ variant = "demo_graph" /\ ret'.provider = "raised")
          => /\ ret'.outcome = "raise"
             /\ ret'.exc = "ProviderError"
             /\ ret'.calls = 1
             /\ store' = store
             /\ memento_id(mementos') = memento_id(mementos)
    /\ (IsCall(ret, "add_memento") /\ ret.provider = "raised"
            /\ ret'.op = "add_memento" /\ ret'.outcome = "ok")
          => /\ ret'.id = memento_id(mementos)
             /\ Len(mementos') = Len(mementos) + 1
             /\ mementos'[Len(mementos')].id = ret'.id

\* C19: when the provider fails during add_memento the failure reaches the
\* caller as it is, the provider was called once (no retry) and the store is
\* unchanged, so that the next successful add_memento receives the ID the
\* failed call had derived; a provider failure during find_similar_mementos
\* reaches the caller and leaves the store unchanged.
C19_ProviderFailurePropagates == [][C19_Step]_vars

\* a failed add_memento on a store that already holds a memento
C19_Witness ==
    /\ IsCall(ret, "add_memento")
    /\ ret.provider = "raised"
    /\ ret.outcome = "raise"
    /\ ret.exc = "ProviderError"
    /\ Len(mementos) >= 1

----------------------------------------------------------------------------
(* Properties of the read views *)

\* the view after the step is the view before it with one record more at its
\* end
AppendedOne(before, after) ==
    /\ Len(after) = Len(before) + 1
    /\ SubSeq(after, 1, Len(before)) = before

C20_Step ==
    /\ (ret'.op = "add_memento" /\ ret'.outcome = "ok")
          => AppendedOne(mementos, mementos')
    /\ (ret'.op = "add_entity" /\ ret'.outcome = "ok")
          => /\ AppendedOne(entities, entities')
             /\ entities'[Len(entities')].source_mementos = ret'.mids
    /\ (ret'.op = "add_relationship" /\ ret'.outcome = "ok")
          => /\ AppendedOne(relationships, relationships')
             /\ relationships'[Len(relationships')].from_entity = ret'.from
             /\ relationships'[Len(relationships')].to_entity = ret'.to

\* C20: the collections of mementos, entities and relationships list the
\* stored records in the order of the insertion calls: every successful
\* insertion puts its record behind the records of the earlier insertions, so
\* that the record of the i-th successful insertion is the i-th element.
C20_ViewsInInsertionOrder == [][C20_Step]_vars

----------------------------------------------------------------------------
(* Properties of the lookups and the text reports *)

C21_Step ==
    ret'.op = "entity_lookup" =>
        /\ store' = store
        /\ IF ret'.id \in DictKeys(entities)
           THEN /\ ret'.outcome = "ok"
                /\ ret'.record.some
                /\ ret'.record.v.id = ret'.id
                /\ \E i \in 1..Len(entities) : entities[i] = ret'.record.v
           ELSE /\ ret'.outcome = "raise"
                /\ ret'.exc = "NotFoundError"
                /\ ~ret'.record.some

\* C21: a point lookup with an ID that is not stored fails with NotFoundError,
\* returns no record and creates none; with a stored ID it returns the record
\* stored under that ID.
C21_LookupUnknownFails == [][C21_Step]_vars

\* round(x) of Python for x = strength * 10, strength in hundredths: to the
\* nearest integer, a tie to the even one
RoundTimes10(strength) ==
    LET q == strength \div 10
        r == strength % 10
    IN  IF r < 5 THEN q
        ELSE IF r > 5 THEN q + 1
        ELSE IF q % 2 = 0 THEN q ELSE q + 1

ReportReturned == IsCall(ret, "visualize") /\ ret.outcome = "ok"

\* C22: for every relationship with strength in [0,1] the strength bar of the
\* text report has round(strength * 10) filled glyphs followed by
\* 10 - round(strength * 10) unfilled glyphs.
C22_BarFromRoundedStrength ==
    ReportReturned =>
        \A i \in 1..Len(relationships) :
            relationships[i].strength \in 0..100
                => /\ ret.bars[i].filled = RoundTimes10(relationships[i].strength)
                   /\ ret.bars[i].empty
                         = 10 - RoundTimes10(relationships[i].strength)

\* C30: for every relationship of a reachable store the rendered strength bar
\* is exactly 10 glyphs long, filled plus unfilled, also for a strength
\* outside [0,1]: such a strength ends the report in an error, it is not drawn
\* as a bar of another length.
C30_BarIsTenGlyphs ==
    variant = "demo_graph_simple" =>
        /\ ReportReturned =>
              \A i \in 1..Len(relationships) :
                  /\ ret.bars[i].filled + ret.bars[i].empty = 10
                  /\ relationships[i].strength \in 0..100
        /\ (IsCall(ret, "visualize") /\ ~UnresolvedLookup
                /\ \E i \in 1..Len(relationships) :
                      relationships[i].strength \notin 0..100)
              => ret.outcome = "raise"

----------------------------------------------------------------------------
(* Properties of the factory *)

HasSubstring(s, t) ==
    \E i \in 1..(Len(s) - Len(t) + 1) : SubSeq(s, i, i + Len(t) - 1) = t

FactoryCalled == IsCall(ret, "create_embedder")

ReturnsLocalProvider ==
    /\ ret.outcome = "ok"
    /\ ret.record = Some(LocalEmbeddingProvider(ret.config.embedding_model,
                                                ret.config.embedding_cache_dir))

RaisesUnsupported ==
    /\ ret.outcome = "raise"
    /\ ret.exc = "ValueError"
    /\ HasSubstring(ret.message, "Unsupported provider")
    /\ ret.built = <<>>
    /\ ~ret.record.some

\* C23 as stated: create_embedder returns a LocalEmbeddingProvider built from
\* the configured model and cache directory exactly when the provider is
\* "local", and for every other value raises ValueError with "Unsupported
\* provider" in its message and constructs no provider.
C23_LocalExactlyWhenConfigured ==
    FactoryCalled =>
        /\ ReturnsLocalProvider <=> ret.config.embedding_provider = "local"
        /\ ret.config.embedding_provider # "local" => RaisesUnsupported

\* C23, amended: with provider "local" the factory calls the constructor once
\* with the configured model and cache directory and returns the provider the
\* constructor built, or lets the constructor's failure through; it returns a
\* provider only for "local"; every other value raises ValueError with
\* "Unsupported provider" in its message and constructs no provider.
C23_LocalDispatch ==
    FactoryCalled =>
        /\ ret.config.embedding_provider = "local"
              => /\ ret.built = <<[model_name |-> ret.config.embedding_model,
                                   cache_dir |-> ret.config.embedding_cache_dir]>>
                 /\ \/ ReturnsLocalProvider
                    \/ ret.outcome = "raise" /\ ret.exc = "ConstructorError"
                          /\ ~ret.record.some
        /\ ret.outcome = "ok" => ret.config.embedding_provider = "local"
        /\ ret.config.embedding_provider # "local" => RaisesUnsupported

\* the factory has returned a provider for "local" with a model and a cache
\* directory of the configuration
C23_Witness ==
    /\ FactoryCalled
    /\ ret.config.embedding_provider = "local"
    /\ ret.config.embedding_model = "some-model"
    /\ ret.config.embedding_cache_dir = ".cache/test"
    /\ ReturnsLocalProvider

----------------------------------------------------------------------------
(* Properties of interleaved calls *)

C24_Step ==
    /\ mementos' # mementos
          => /\ ret'.id \notin DictKeys(mementos)
             /\ AppendedOne(mementos, mementos')
             /\ mementos'[Len(mementos')].id = ret'.id
    /\ \A i \in 1..Len(mementos') : mementos'[i].embedding.some

\* C24: when two add_memento calls on one store are interleaved at the
\* granularity of their steps (derive the ID, call the provider, store the
\* record), each stored record gets an ID of its own and overwrites no stored
\* record, and no memento is in the store before its embedding is set.
C24_InterleavedAddsAreAtomic == [][C24_Step]_vars

----------------------------------------------------------------------------
(* Properties of the hierarchy edges and the read-only operations *)

ChildrenOf(h, parent) ==
    IF \E i \in 1..Len(h) : h[i].key = parent
    THEN h[CHOOSE i \in 1..Len(h) : h[i].key = parent].items
    ELSE <<>>

HierarchyKeys(h) == {h[i].key : i \in 1..Len(h)}

C25_Step ==
    ret'.op = "add_hierarchy" =>
        /\ ret'.outcome = "ok"
        /\ ChildrenOf(hierarchy', ret'.from)
              = Append(ChildrenOf(hierarchy, ret'.from), ret'.to)
        /\ HierarchyKeys(hierarchy') = HierarchyKeys(hierarchy) \cup {ret'.from}
        /\ \A p \in HierarchyKeys(hierarchy') \ {ret'.from} :
              ChildrenOf(hierarchy', p) = ChildrenOf(hierarchy, p)
        /\ UNCHANGED <<mementos, entities, relationships>>

\* C25: add_hierarchy(parent, child) appends child to the parent's child list
\* and changes nothing else: mementos, entities, relationships and the lists
\* of the other parents stay as they are; every pair is accepted, a self-loop
\* and an edge that closes a cycle included.
C25_AddHierarchyFrame == [][C25_Step]_vars

\* a store whose hierarchy holds a self-loop or a two-edge cycle, the last
\* call being the add_hierarchy that closed it
C25_Witness ==
    /\ IsCall(ret, "add_hierarchy")
    /\ ret.outcome = "ok"
    /\ \E k \in 1..Len(ChildrenOf(hierarchy, ret.from)) :
          ChildrenOf(hierarchy, ret.from)[k] = ret.to
    /\ \/ ret.from = ret.to
       \/ \E k \in 1..Len(ChildrenOf(hierarchy, ret.to)) :
             ChildrenOf(hierarchy, ret.to)[k] = ret.from
    /\ Len(hierarchy) = 2

ReadOnlyOps ==
    {"to_json", "to_mermaid", "to_neo4j_cypher", "print_summary", "visualize",
     "find_similar_mementos"}

C26_Step ==
    ret'.op \in ReadOnlyOps =>
        /\ store' = store
        /\ HierarchyKeys(hierarchy') = HierarchyKeys(hierarchy)
        /\ (ret.op = ret'.op /\ ret.query = ret'.query /\ ret.top_k = ret'.top_k
               /\ ret.outcome = "ok" /\ ret'.outcome = "ok")
              => ret' = ret

\* C26: to_json, to_mermaid, to_neo4j_cypher, print_summary, visualize and
\* find_similar_mementos leave mementos, entities, relationships and hierarchy,
\* the set of hierarchy keys included, exactly as they were, so the same
\* rendering run twice in a row gives the same output (the provider answering
\* an equal query equally).
C26_ReadsLeaveStore == [][C26_Step]_vars

\* a report of demo_graph.py has been rendered over a store that holds a
\* memento, an entity with its hierarchy bucket, and a relationship
C26_Witness ==
    /\ variant = "demo_graph"
    /\ IsCall(ret, "visualize")
    /\ ret.outcome = "ok"
    /\ Len(mementos) >= 1
    /\ Len(hierarchy) >= 2
    /\ Len(relationships) >= 1
    /\ Len(ret.searches) = 2

\* C27: in every store reachable through the mutation API each hierarchy entry
\* and each relationship endpoint names a stored entity, so the text report
\* never fails on an unresolved ID.
C27_ReportResolvesIds ==
    /\ variant \in {"demo_graph", "demo_graph_simple"} => ~UnresolvedLookup
    /\ ret.op \in {"visualize", "print_summary"} => ret.exc # "KeyError"

C28_Step ==
    (ret'.op = "add_entity" /\ ret'.outcome = "ok") =>
        /\ Len(entities') = Len(entities) + 1
        /\ Cardinality(DictKeys(entities')) = Cardinality(DictKeys(entities)) + 1
        /\ SumLen(hierarchy') = SumLen(hierarchy) + 1

\* C28: entity IDs are unique per insertion: every successful add_entity call
\* adds one entity under an ID no stored entity has, also when the type and the
\* name are those of a stored entity, and adds one entry to the hierarchy
\* buckets; so after n calls there are n entities under n distinct IDs and the
\* bucket lengths sum to n.
C28_OneEntityPerInsertion == [][C28_Step]_vars

RECURSIVE SumCount(_)
SumCount(counts) ==
    IF counts = <<>> THEN 0 ELSE Head(counts).count + SumCount(Tail(counts))

CountKeys(counts) == {counts[i].key : i \in 1..Len(counts)}

\* the counts have one entry per value of the field among the exported
\* entities, and the entry holds the number of entities with that value
CountsAgree(counts, values) ==
    /\ CountKeys(counts) = {values[i] : i \in 1..Len(values)}
    /\ Cardinality(CountKeys(counts)) = Len(counts)
    /\ \A i \in 1..Len(counts) :
          /\ counts[i].count >= 1
          /\ counts[i].count =
                Cardinality({j \in 1..Len(values) : values[j] = counts[i].key})
    /\ SumCount(counts) = Len(values)

\* C29: in every structured export the statistics agree with the lists of the
\* same export: the three totals are the lengths of the mementos, entities and
\* relationships lists, and entities_by_type and entities_by_scale each sum to
\* total_entities, with one key per type (scale) present and no count of 0.
C29_StatisticsAgreeWithLists ==
    IsCall(ret, "to_json") =>
        LET doc == ret.doc
            st == doc.statistics
        IN  /\ st.total_mementos = Len(doc.mementos)
            /\ st.total_entities = Len(doc.entities)
            /\ st.total_relationships = Len(doc.relationships)
            /\ SumCount(st.entities_by_type) = st.total_entities
            /\ SumCount(st.entities_by_scale) = st.total_entities
            /\ CountsAgree(st.entities_by_type,
                           [i \in 1..Len(doc.entities) |-> doc.entities[i].type])
            /\ CountsAgree(st.entities_by_scale,
                           [i \in 1..Len(doc.entities) |-> doc.entities[i].scale])

\* an export of two entities of different types and the same scale, with a
\* memento and a relationship
C29_Witness ==
    /\ IsCall(ret, "to_json")
    /\ Len(ret.doc.entities) = 2
    /\ Len(ret.doc.statistics.entities_by_type) = 2
    /\ Len(ret.doc.statistics.entities_by_scale) = 1
    /\ ret.doc.statistics.total_mementos >= 1
    /\ ret.doc.statistics.total_relationships >= 1

====
